---- MODULE Spec2Model ----
(***************************************************************************)
(* Model of src/App.tsx: a React Native note list (the App component) over *)
(* one SQLite table, notes(id INTEGER PRIMARY KEY AUTOINCREMENT, note      *)
(* TEXT).                                                                  *)
(*                                                                         *)
(* Texts are sequences of one-character strings, so that trim(), LIKE and  *)
(* substring tests are computed and not assumed.                           *)
(*                                                                         *)
(* React semantics used throughout: a handler and the loadNotes it calls   *)
(* are closures of the render in which they were created.  The values of   *)
(* search, page and notes they read are that render's values; a setState   *)
(* call made earlier in the same handler does not change them.  An async   *)
(* handler keeps its render's closure across its await.  A render is       *)
(* assumed to commit between any two steps of the model.  The module-level *)
(* variable db is read when the code reaches the test, not captured.       *)
(***************************************************************************)
EXTENDS Integers, Sequences, FiniteSets, TLC

VARIABLES
    db,                 \* App.tsx:6    module-level handle: TRUE once opened
    tableExists,        \* store: the notes table has been created
    rows,               \* store: function id -> note text
    seq,                \* store: AUTOINCREMENT's sqlite_sequence value
    notes,              \* App.tsx:18   useState: the displayed list
    search,             \* App.tsx:19
    modalVisible,       \* App.tsx:20
    modalDeleteVisible, \* App.tsx:21
    currentNote,        \* App.tsx:22
    editingNoteId,      \* App.tsx:23
    deleteNoteId,       \* App.tsx:24
    page,               \* App.tsx:25
    calls,              \* store calls issued and not yet resolved, in issue order
    ev,                 \* history: the step taken last
    hist,               \* history: what the user asked of the store
    q                   \* outcome of the last direct query or drawn row

storeVars == <<tableExists, rows, seq>>
viewVars  == <<notes, search, modalVisible, modalDeleteVisible, currentNote,
               editingNoteId, deleteNoteId, page>>
vars == <<db, tableExists, rows, seq, notes, search, modalVisible,
          modalDeleteVisible, currentNote, editingNoteId, deleteNoteId, page,
          calls, ev, hist, q>>

----------------------------------------------------------------------------
(* Bounds of the model *)

MaxCalls == 2       \* store calls pending at once
MaxPage == 2        \* largest value of page explored
MaxCreates == 2     \* INSERTs issued in one run of the controller
MaxEvents == 5      \* user events in one run of the controller
MaxSmallEvents == 4 \* user events in one run on a few notes of an earlier run
MaxPagedEvents == 4 \* user events in one run on more than one page of notes
MaxFailingEvents == 3 \* user events in one run on a store that can fail
MaxRenderEvents == 2 \* user events in one run on a note of any length
MaxTextLen == 33    \* characters of the longest note rendered
SmallRows == 2      \* rows a store left by an earlier run holds
PreRows == 52       \* rows a store of more than one page holds
MaxRows == 3        \* rows inserted in the search specification
MaxLimit == 3       \* largest LIMIT asked in the search specification
BigRows == 120      \* rows of the large store of the search specification

(* Program constants *)

limit == 50
TruncateAt == 30

\* null of editingNoteId and deleteNoteId: no row id (ids are 1 or more)
NULL == 0 - 1

Min(a, b) == IF a < b THEN a ELSE b
Max(a, b) == IF a < b THEN b ELSE a

----------------------------------------------------------------------------
(* Strings *)

Whitespace == {" "}

RECURSIVE TrimStart(_)
TrimStart(t) ==
    IF t # <<>> /\ Head(t) \in Whitespace THEN TrimStart(Tail(t)) ELSE t

RECURSIVE TrimEnd(_)
TrimEnd(t) ==
    IF t # <<>> /\ t[Len(t)] \in Whitespace
    THEN TrimEnd(SubSeq(t, 1, Len(t) - 1)) ELSE t

\* String.prototype.trim
trim(t) == TrimEnd(TrimStart(t))

\* JavaScript truthiness of a string: the empty string is falsy
Truthy(t) == t # <<>>

\* SQLite folds ASCII letters when LIKE compares them
Fold(c) == IF c = "A" THEN "a" ELSE IF c = "B" THEN "b" ELSE c

\* SQLite's LIKE: % is any run of characters, _ any one character, letters
\* compare without regard to ASCII case, and there is no escape character
RECURSIVE Like(_, _)
Like(p, t) ==
    IF p = <<>> THEN t = <<>>
    ELSE IF Head(p) = "%"
         THEN Like(Tail(p), t) \/ (t # <<>> /\ Like(p, Tail(t)))
         ELSE /\ t # <<>>
              /\ (Head(p) = "_" \/ Fold(Head(p)) = Fold(Head(t)))
              /\ Like(Tail(p), Tail(t))

\* the bound parameter `%${search}%`
LikePattern(term) == <<"%">> \o term \o <<"%">>

----------------------------------------------------------------------------
(* The store: the statements App.tsx sends, over rows and seq *)

MaxId(r) ==
    IF DOMAIN r = {} THEN 0
    ELSE CHOOSE m \in DOMAIN r : \A j \in DOMAIN r : j <= m

\* ids from n down to 1
DescIds(n) == [i \in 1..n |-> n + 1 - i]

\* mutant of MatchingDesc: ORDER BY id ASC
MatchingAsc(r, term) ==
    SelectSeq([i \in 1..MaxId(r) |-> i],
              LAMBDA id : id \in DOMAIN r /\ Like(LikePattern(term), r[id]))

\* ORDER BY id DESC over the rows that pass WHERE note LIKE ?
MatchingDesc(r, term) ==
    SelectSeq(DescIds(MaxId(r)),
              LAMBDA id : id \in DOMAIN r /\ Like(LikePattern(term), r[id]))

\* mutant of LimitOffset: lim taken as the last position, not as a count
LimitAsEnd(s, lim, off) == SubSeq(s, off + 1, Min(lim, Len(s)))

\* LIMIT lim OFFSET off
LimitOffset(s, lim, off) == SubSeq(s, off + 1, Min(off + lim, Len(s)))

\* SELECT * FROM notes WHERE note LIKE ? ORDER BY id DESC LIMIT ? OFFSET ?
Select(r, term, lim, off) ==
    LET ids == LimitOffset(MatchingDesc(r, term), lim, off)
    IN  [k \in 1..Len(ids) |-> [id |-> ids[k], note |-> r[ids[k]]]]

\* the rowid AUTOINCREMENT gives the next INSERT: above every id ever used
NextRowId(r, s) == Max(s, MaxId(r)) + 1

\* INSERT INTO notes (note) VALUES (?)
InsertRows(r, s, t) ==
    [id \in DOMAIN r \cup {NextRowId(r, s)} |->
        IF id \in DOMAIN r THEN r[id] ELSE t]

\* mutant of UpdateRows: the WHERE clause left out
UpdateAllRows(r, id, t) == [i \in DOMAIN r |-> t]

\* UPDATE notes SET note = ? WHERE id = ?
UpdateRows(r, id, t) == [i \in DOMAIN r |-> IF i = id THEN t ELSE r[i]]

\* mutant of DeleteRows: the WHERE clause left out
DeleteAllRows(r, id) == [i \in {} |-> r[i]]

\* mutant of DeleteRows: WHERE id < ?
DeleteRowsBelow(r, id) == [i \in {j \in DOMAIN r : j >= id} |-> r[i]]

\* DELETE FROM notes WHERE id = ?
DeleteRows(r, id) == [i \in DOMAIN r \ {id} |-> r[i]]

----------------------------------------------------------------------------
(* Inputs the user can give, and the store an earlier run can leave *)

SearchTerms == {<<>>, <<"a">>}
DraftTexts == {<<" ">>, <<"a">>, <<" ", "b">>}

\* the rows of the list the user taps: the first and the last shown
TapPositions(n) == {1, n} \cap (1..n)

\* text of row i of a store left by an earlier run
NoteOf(i) == IF i % 2 = 0 THEN <<"a">> ELSE <<"b">>

EmptyRows == [i \in {} |-> <<>>]
SmallStore == [i \in 1..SmallRows |-> NoteOf(i)]
PreFilled == [i \in 1..PreRows |-> NoteOf(i)]

----------------------------------------------------------------------------
(* Store calls in flight.  A call is issued by a handler, executed by the  *)
(* store at some later moment (st becomes "ok" or "err"), and resolved     *)
(* when its promise settles and the awaiting code continues.  cl is the    *)
(* closure of the render the awaiting code belongs to.  why, wantTerm,     *)
(* wantPage and expect are history fields: what triggered a load, the term *)
(* and page in the view state once the triggering handler has run, and the *)
(* list that term and page give when the load is executed: the rows of     *)
(* page 0, or for a later page the list shown at the trigger followed by   *)
(* that page's rows.  later is a history field too: empty, or the list     *)
(* set by a load that was issued after this one and has settled before it. *)

Closure == [search |-> search, page |-> page, notes |-> notes]
FirstRender == [search |-> <<>>, page |-> 0, notes |-> <<>>]

Call(op, text, id, cont, cl) ==
    [op |-> op, text |-> text, id |-> id, term |-> <<>>, off |-> 0,
     cont |-> cont, cl |-> cl, st |-> "queued", res |-> <<>>,
     why |-> "none", wantTerm |-> <<>>, wantPage |-> 0, expect |-> <<>>,
     later |-> <<>>]

NoCall == Call("none", <<>>, NULL, "none", FirstRender)

\* what a step can be compared with afterwards: the store and the view state
\* as they were before it
Snapshot ==
    [rows |-> rows, seq |-> seq, calls |-> calls, notes |-> notes,
     search |-> search, page |-> page, modalVisible |-> modalVisible,
     modalDeleteVisible |-> modalDeleteVisible, currentNote |-> currentNote,
     editingNoteId |-> editingNoteId, deleteNoteId |-> deleteNoteId]

NoSnapshot ==
    [rows |-> EmptyRows, seq |-> 0, calls |-> <<>>, notes |-> <<>>,
     search |-> <<>>, page |-> 0, modalVisible |-> FALSE,
     modalDeleteVisible |-> FALSE, currentNote |-> <<>>,
     editingNoteId |-> NULL, deleteNoteId |-> NULL]

\* the step taken last: its kind, and of the call it started from, executed
\* or settled the statement, the text and id sent, its outcome, the page of
\* its closure, why it was a load and what the load was expected to show;
\* pageBefore is page before the step
Event(kind, c, pageBefore) ==
    [kind |-> kind, op |-> c.op, draft |-> c.text, id |-> c.id, st |-> c.st,
     tapPage |-> c.cl.page, why |-> c.why, expect |-> c.expect,
     later |-> c.later, pageBefore |-> pageBefore, before |-> NoSnapshot]

\* the same, with the state before the step
EventAfter(kind, c) == [Event(kind, c, 0) EXCEPT !.before = Snapshot]

\* loadNotes of the render cl, lines 32-37: the calls it issues
loadNotes(cl, why, wantTerm, wantPage) ==
    IF ~db THEN <<>>
    ELSE << [Call("select", <<>>, NULL, "load", cl) EXCEPT
                !.term = cl.search, !.off = cl.page * limit,
                !.why = why, !.wantTerm = wantTerm, !.wantPage = wantPage] >>

\* loadNotes, line 38: setNotes(page === 0 ? results : [...notes, ...results])
setNotesAfterLoad(cl, results) ==
    IF cl.page = 0 THEN results ELSE cl.notes \o results

Remove(s, i) == SubSeq(s, 1, i - 1) \o SubSeq(s, i + 1, Len(s))

IsMutation(c) == c.op \in {"insert", "update", "delete"}

NoModal == ~modalVisible /\ ~modalDeleteVisible

----------------------------------------------------------------------------
(* Initial states: the component has mounted and its effect has called    *)
(* initializeDB, on a fresh install or on the store of an earlier run.     *)

InitView ==
    /\ notes = <<>>
    /\ search = <<>>
    /\ modalVisible = FALSE
    /\ modalDeleteVisible = FALSE
    /\ currentNote = <<>>
    /\ editingNoteId = NULL
    /\ deleteNoteId = NULL
    /\ page = 0

NoQuery == [kind |-> "none", term |-> <<>>, lim |-> 0, off |-> 0,
            res |-> <<>>, pages |-> <<>>]

\* events counts down the user events left to the run; target is the row the
\* add/edit dialog was last opened on (NULL: the add button), armed the row
\* whose delete is waiting for an answer, touched whether the store has
\* executed an INSERT, UPDATE or DELETE in this run
InitHist(r, budget) ==
    [events |-> budget, issuedCreates |-> 0, created |-> DOMAIN r,
     deleted |-> {}, text |-> r, target |-> NULL, armed |-> NULL,
     touched |-> FALSE]

InitStore(r, budget) ==
    /\ rows = r
    /\ seq = MaxId(r)
    /\ tableExists = (r # EmptyRows)
    /\ hist = InitHist(r, budget)

InitApp ==
    /\ InitView
    /\ db = FALSE
    /\ calls = << Call("open", <<>>, NULL, "init1", FirstRender) >>
    /\ ev = Event("other", NoCall, 0)
    /\ q = NoQuery

\* first start: no table yet
Init == InitApp /\ InitStore(EmptyRows, MaxEvents)

\* a later start, on a store that holds a few notes
InitSmall == InitApp /\ InitStore(SmallStore, MaxSmallEvents)

\* a later start, on a store that holds more than one page of notes
InitPaged == InitApp /\ InitStore(PreFilled, MaxPagedEvents)

----------------------------------------------------------------------------
(* User events *)

\* TextInput onChangeText, lines 87-91
onChangeText(text) ==
    /\ hist.events > 0
    /\ NoModal
    /\ text # search
    /\ Len(calls) < MaxCalls
    /\ search' = text
    /\ page' = 0
    /\ calls' = calls \o loadNotes(Closure, "search", text, 0)
    /\ ev' = Event("searchChanged", NoCall, 0)
    /\ hist' = [hist EXCEPT !.events = @ - 1]
    /\ UNCHANGED <<db, storeVars, notes, modalVisible, modalDeleteVisible,
                   currentNote, editingNoteId, deleteNoteId, q>>

\* FlatList onEndReached, lines 96-99
onEndReached ==
    /\ hist.events > 0
    /\ page < MaxPage
    /\ Len(calls) < MaxCalls
    /\ page' = page + 1
    /\ calls' = calls \o loadNotes(Closure, "end", search, page + 1)
    /\ ev' = Event("other", NoCall, 0)
    /\ hist' = [hist EXCEPT !.events = @ - 1]
    /\ UNCHANGED <<db, storeVars, notes, search, modalVisible,
                   modalDeleteVisible, currentNote, editingNoteId,
                   deleteNoteId, q>>

\* mutant of draftOfAddModal: setCurrentNote("") left out
draftKept == currentNote

\* setCurrentNote("") of openAddModal, line 76
draftOfAddModal == <<>>

\* openAddModal, lines 75-79, from the floating button, line 111
openAddModal ==
    /\ hist.events > 0
    /\ NoModal
    /\ currentNote' = draftOfAddModal
    /\ editingNoteId' = NULL
    /\ modalVisible' = TRUE
    /\ ev' = EventAfter("openAdd", NoCall)
    /\ hist' = [hist EXCEPT !.events = @ - 1, !.target = NULL]
    /\ UNCHANGED <<db, storeVars, notes, search, modalDeleteVisible,
                   deleteNoteId, page, calls, q>>

\* openEditModal, lines 69-73, from a row of the list, line 101
openEditModal(i) ==
    /\ hist.events > 0
    /\ NoModal
    /\ currentNote' = notes[i].note
    /\ editingNoteId' = notes[i].id
    /\ modalVisible' = TRUE
    /\ ev' = EventAfter("openEdit", [NoCall EXCEPT !.text = notes[i].note,
                                              !.id = notes[i].id])
    /\ hist' = [hist EXCEPT !.events = @ - 1, !.target = notes[i].id]
    /\ UNCHANGED <<db, storeVars, notes, search, modalDeleteVisible,
                   deleteNoteId, page, calls, q>>

\* the trash icon of a row, line 103
trashPress(i) ==
    /\ hist.events > 0
    /\ NoModal
    /\ deleteNoteId' = notes[i].id
    /\ modalDeleteVisible' = TRUE
    /\ ev' = Event("other", NoCall, 0)
    /\ hist' = [hist EXCEPT !.events = @ - 1, !.armed = notes[i].id]
    /\ UNCHANGED <<db, storeVars, notes, search, modalVisible, currentNote,
                   editingNoteId, page, calls, q>>

\* the dialog's TextInput, line 121: onChangeText={setCurrentNote}
setCurrentNote(t) ==
    /\ hist.events > 0
    /\ modalVisible
    /\ t # currentNote
    /\ currentNote' = t
    /\ ev' = Event("other", NoCall, 0)
    /\ hist' = [hist EXCEPT !.events = @ - 1]
    /\ UNCHANGED <<db, storeVars, notes, search, modalVisible,
                   modalDeleteVisible, editingNoteId, deleteNoteId, page,
                   calls, q>>

\* the dialog's close button, line 118
closePress ==
    /\ hist.events > 0
    /\ modalVisible
    /\ modalVisible' = FALSE
    /\ ev' = EventAfter("close", NoCall)
    /\ hist' = [hist EXCEPT !.events = @ - 1]
    /\ UNCHANGED <<db, storeVars, notes, search, modalDeleteVisible,
                   currentNote, editingNoteId, deleteNoteId, page, calls, q>>

\* mutant of addNote: the draft is tested without trim()
addNoteUntrimmed ==
    IF ~Truthy(currentNote) \/ ~db THEN <<>>
    ELSE << Call("insert", currentNote, NULL, "add", Closure) >>

\* addNote up to its await, lines 41-43: the calls it issues
addNote ==
    IF ~Truthy(trim(currentNote)) \/ ~db THEN <<>>
    ELSE << Call("insert", currentNote, NULL, "add", Closure) >>

\* updateNote up to its await, lines 50-52: the calls it issues
updateNote ==
    IF ~Truthy(trim(currentNote)) \/ editingNoteId = NULL \/ ~db THEN <<>>
    ELSE << Call("update", currentNote, editingNoteId, "upd", Closure) >>

\* the save button, line 122: onPress={editingNoteId ? updateNote : addNote}
savePress ==
    /\ hist.events > 0
    /\ modalVisible
    /\ Len(calls) < MaxCalls
    /\ LET issued == IF editingNoteId # NULL /\ editingNoteId # 0
                     THEN updateNote ELSE addNote
           creates == Len(SelectSeq(issued, LAMBDA c : c.op = "insert"))
       IN  /\ hist.issuedCreates + creates <= MaxCreates
           /\ calls' = calls \o issued
           /\ hist' = [hist EXCEPT !.events = @ - 1, !.issuedCreates = @ + creates]
           /\ ev' = EventAfter("save",
                    IF issued = <<>> THEN [NoCall EXCEPT !.text = currentNote]
                    ELSE issued[1])
    /\ UNCHANGED <<db, storeVars, viewVars, q>>

\* deleteNote up to its await, lines 60-62, from the confirm button, line 133
confirmPress ==
    /\ hist.events > 0
    /\ modalDeleteVisible
    /\ Len(calls) < MaxCalls
    /\ LET issued == IF deleteNoteId = NULL \/ ~db THEN <<>>
                     ELSE << Call("delete", <<>>, deleteNoteId, "del", Closure) >>
       IN  /\ calls' = calls \o issued
           /\ hist' = [hist EXCEPT !.events = @ - 1, !.deleted =
                          @ \cup {issued[k].id : k \in 1..Len(issued)}]
           /\ ev' = EventAfter("confirm",
                    IF issued = <<>> THEN NoCall ELSE issued[1])
    /\ UNCHANGED <<db, storeVars, viewVars, q>>

\* mutant of deleteModalAfterDecline: the confirmation stays open
deleteModalKept == modalDeleteVisible

\* setModalDeleteVisible(false) of the decline button, line 136
deleteModalAfterDecline == FALSE

\* the decline button, line 136
declinePress ==
    /\ hist.events > 0
    /\ modalDeleteVisible
    /\ modalDeleteVisible' = deleteModalAfterDecline
    /\ ev' = EventAfter("decline", NoCall)
    /\ hist' = [hist EXCEPT !.events = @ - 1, !.armed = NULL]
    /\ UNCHANGED <<db, storeVars, notes, search, modalVisible, currentNote,
                   editingNoteId, deleteNoteId, page, calls, q>>

----------------------------------------------------------------------------
(* The store executes a pending call.  Calls are independent promises: the *)
(* model lets the store take them in any order.                            *)

\* openDatabaseAsync("notes.db"), line 9
execOpen(i) ==
    /\ calls[i].op = "open"
    /\ calls' = [calls EXCEPT ![i].st = "ok"]
    /\ UNCHANGED <<storeVars, hist>>

\* mutant of CreateTableRows: the table is created anew
RecreateTableRows(r) == EmptyRows

\* the rows after CREATE TABLE IF NOT EXISTS, lines 10-14: those there were
CreateTableRows(r) == r

\* CREATE TABLE IF NOT EXISTS notes, lines 10-14
execCreateTable(i) ==
    /\ calls[i].op = "create"
    /\ tableExists' = TRUE
    /\ rows' = CreateTableRows(rows)
    /\ calls' = [calls EXCEPT ![i].st = "ok"]
    /\ UNCHANGED <<seq, hist>>

\* the SELECT of loadNotes, lines 34-37
execSelect(i) ==
    /\ calls[i].op = "select"
    /\ calls' = IF tableExists
                THEN [calls EXCEPT
                        ![i].st = "ok",
                        ![i].res = Select(rows, calls[i].term, limit, calls[i].off),
                        ![i].expect =
                            (IF calls[i].wantPage = 0 THEN <<>> ELSE calls[i].cl.notes)
                            \o Select(rows, calls[i].wantTerm, limit,
                                      calls[i].wantPage * limit)]
                ELSE [calls EXCEPT ![i].st = "err"]
    /\ UNCHANGED <<storeVars, hist>>

\* the INSERT of addNote, line 43
execInsert(i) ==
    /\ calls[i].op = "insert"
    /\ IF tableExists
       THEN /\ rows' = InsertRows(rows, seq, calls[i].text)
            /\ seq' = NextRowId(rows, seq)
            /\ hist' = [hist EXCEPT
                          !.touched = TRUE,
                          !.created = @ \cup (DOMAIN rows' \ DOMAIN rows),
                          !.text = [id \in DOMAIN @ \cup (DOMAIN rows' \ DOMAIN rows) |->
                                      IF id \in DOMAIN rows THEN @[id]
                                      ELSE calls[i].text]]
            /\ calls' = [calls EXCEPT ![i].st = "ok"]
       ELSE /\ calls' = [calls EXCEPT ![i].st = "err"]
            /\ UNCHANGED <<rows, seq, hist>>
    /\ UNCHANGED tableExists

\* the UPDATE of updateNote, line 52
execUpdate(i) ==
    /\ calls[i].op = "update"
    /\ IF tableExists
       THEN /\ rows' = UpdateRows(rows, calls[i].id, calls[i].text)
            /\ hist' = [hist EXCEPT
                          !.touched = TRUE,
                          !.text = [id \in DOMAIN @ |->
                                      IF id = calls[i].id THEN calls[i].text
                                      ELSE @[id]]]
            /\ calls' = [calls EXCEPT ![i].st = "ok"]
       ELSE /\ calls' = [calls EXCEPT ![i].st = "err"]
            /\ UNCHANGED <<rows, hist>>
    /\ UNCHANGED <<tableExists, seq>>

\* the DELETE of deleteNote, line 62
execDelete(i) ==
    /\ calls[i].op = "delete"
    /\ IF tableExists
       THEN /\ rows' = DeleteRows(rows, calls[i].id)
            /\ hist' = [hist EXCEPT !.touched = TRUE]
            /\ calls' = [calls EXCEPT ![i].st = "ok"]
       ELSE /\ calls' = [calls EXCEPT ![i].st = "err"]
            /\ UNCHANGED <<rows, hist>>
    /\ UNCHANGED <<tableExists, seq>>

\* the kind of step the execution of a statement is
ExecKind(op) ==
    CASE op = "create" -> "createExecuted"
      [] op = "update" -> "updateExecuted"
      [] op = "delete" -> "deleteExecuted"
      [] OTHER -> "other"

Exec(i) ==
    /\ calls[i].st = "queued"
    /\ \/ execOpen(i)
       \/ execCreateTable(i)
       \/ execSelect(i)
       \/ execInsert(i)
       \/ execUpdate(i)
       \/ execDelete(i)
    /\ ev' = IF ExecKind(calls[i].op) = "other" THEN Event("other", NoCall, 0)
             ELSE EventAfter(ExecKind(calls[i].op), calls'[i])
    /\ UNCHANGED <<db, viewVars, q>>

----------------------------------------------------------------------------
(* A call's promise settles and the code awaiting it continues *)

\* initializeDB after its first await, lines 9-10: db is set, CREATE is sent
resolveOpen(i) ==
    /\ calls[i].cont = "init1"
    /\ db' = TRUE
    /\ calls' = Append(Remove(calls, i),
                       Call("create", <<>>, NULL, "init2", FirstRender))
    /\ ev' = Event("other", NoCall, 0)
    /\ UNCHANGED <<storeVars, viewVars, hist, q>>

\* initializeDB().then(loadNotes), line 29: loadNotes of the first render
resolveInit(i) ==
    /\ calls[i].cont = "init2"
    /\ calls' = Remove(calls, i) \o loadNotes(FirstRender, "init", <<>>, 0)
    /\ ev' = Event("other", NoCall, 0)
    /\ UNCHANGED <<db, storeVars, viewVars, hist, q>>

\* the pending calls once the load at i has set list: the loads issued
\* before it that are still pending have been overtaken, by it or by the
\* load that had overtaken it
Overtake(cs, i, list) ==
    [k \in 1..Len(cs) |->
        IF k < i /\ cs[k].op = "select"
        THEN [cs[k] EXCEPT !.later =
                 IF cs[i].later = <<>> THEN <<list>> ELSE cs[i].later]
        ELSE cs[k]]

\* loadNotes after its await, line 38
resolveLoad(i) ==
    /\ calls[i].cont = "load"
    /\ notes' = setNotesAfterLoad(calls[i].cl, calls[i].res)
    /\ calls' = Remove(Overtake(calls, i, notes'), i)
    /\ ev' = Event("loaded", [calls[i] EXCEPT !.text = <<>>, !.cl = FirstRender], 0)
    /\ UNCHANGED <<db, storeVars, search, modalVisible, modalDeleteVisible,
                   currentNote, editingNoteId, deleteNoteId, page, hist, q>>

\* mutant of pageAfterMutation: setPage(0) left out
pageKept == page

\* setPage(0) after a mutation, lines 46, 56 and 65
pageAfterMutation == 0

\* addNote after its await, lines 44-47
resolveAdd(i) ==
    /\ calls[i].cont = "add"
    /\ currentNote' = <<>>
    /\ modalVisible' = FALSE
    /\ page' = pageAfterMutation
    /\ calls' = Remove(calls, i) \o loadNotes(calls[i].cl, "mutation", search, 0)
    /\ ev' = Event("added", [NoCall EXCEPT !.cl = calls[i].cl], page)
    /\ UNCHANGED <<db, storeVars, notes, search, modalDeleteVisible,
                   editingNoteId, deleteNoteId, hist, q>>

\* updateNote after its await, lines 53-57
resolveUpdate(i) ==
    /\ calls[i].cont = "upd"
    /\ modalVisible' = FALSE
    /\ currentNote' = <<>>
    /\ editingNoteId' = NULL
    /\ page' = pageAfterMutation
    /\ calls' = Remove(calls, i) \o loadNotes(calls[i].cl, "mutation", search, 0)
    /\ ev' = Event("updated", [NoCall EXCEPT !.cl = calls[i].cl], page)
    /\ UNCHANGED <<db, storeVars, notes, search, modalDeleteVisible,
                   deleteNoteId, hist, q>>

\* deleteNote after its await, lines 63-66
resolveDelete(i) ==
    /\ calls[i].cont = "del"
    /\ modalDeleteVisible' = FALSE
    /\ deleteNoteId' = NULL
    /\ page' = pageAfterMutation
    /\ calls' = Remove(calls, i) \o loadNotes(calls[i].cl, "mutation", search, 0)
    /\ ev' = Event("deleted", [NoCall EXCEPT !.cl = calls[i].cl], page)
    /\ UNCHANGED <<db, storeVars, notes, search, modalVisible, currentNote,
                   editingNoteId, hist, q>>

\* mutant of afterRejection: the rejected call is sent again
retryAfterRejection(c) == << [c EXCEPT !.st = "queued"] >>

\* the calls a handler issues once its await has rejected: none, the
\* rejection leaves the handler, lines 43, 52 and 62
afterRejection(c) == <<>>

\* a rejected promise: nothing catches it, the code after the await never runs
resolveRejected(i) ==
    /\ calls[i].st = "err"
    /\ calls' = Remove(calls, i) \o afterRejection(calls[i])
    /\ ev' = EventAfter("rejected", calls[i])
    /\ UNCHANGED <<db, storeVars, viewVars, hist, q>>

Resolve(i) ==
    \/ /\ calls[i].st = "ok"
       /\ \/ resolveOpen(i)
          \/ resolveInit(i)
          \/ resolveLoad(i)
          \/ resolveAdd(i)
          \/ resolveUpdate(i)
          \/ resolveDelete(i)
    \/ resolveRejected(i)

----------------------------------------------------------------------------

Next ==
    \/ \E t \in SearchTerms : onChangeText(t)
    \/ onEndReached
    \/ openAddModal
    \/ \E i \in TapPositions(Len(notes)) : openEditModal(i)
    \/ \E i \in TapPositions(Len(notes)) : trashPress(i)
    \/ \E t \in DraftTexts : setCurrentNote(t)
    \/ closePress
    \/ savePress
    \/ confirmPress
    \/ declinePress
    \/ \E i \in 1..Len(calls) : Exec(i)
    \/ \E i \in 1..Len(calls) : Resolve(i)

Spec == Init /\ [][Next]_vars

SpecSmall == InitSmall /\ [][Next]_vars

SpecPaged == InitPaged /\ [][Next]_vars

----------------------------------------------------------------------------
(* The same controller over a store that can fail any call it is sent: the *)
(* promise of the call rejects, lines 9, 10, 34, 43, 52 and 62.            *)

\* the store fails a pending call and leaves its rows as they were
execFail(i) ==
    /\ calls[i].st = "queued"
    /\ calls' = [calls EXCEPT ![i].st = "err"]
    /\ ev' = Event("other", NoCall, 0)
    /\ UNCHANGED <<db, storeVars, viewVars, hist, q>>

InitFailing == InitApp /\ InitStore(SmallStore, MaxFailingEvents)

NextFailing ==
    \/ Next
    \/ \E i \in 1..Len(calls) : execFail(i)

SpecFailing == InitFailing /\ [][NextFailing]_vars

----------------------------------------------------------------------------
(* A row of the list as renderItem draws it, for notes of every length up  *)
(* to MaxTextLen: the list has been loaded from a store that holds one     *)
(* note, the row is drawn, tapped, and its dialog closed.                  *)

\* a text of n characters, all "a" but the k-th, which is "b"
Marked(n, k) == [i \in 1..n |-> IF i = k THEN "b" ELSE "a"]

RowTexts ==
    {Marked(n, k) : n \in 1..MaxTextLen,
                    k \in {0, 1, TruncateAt, TruncateAt + 1, MaxTextLen}}

\* mutant of renderItem: a note of 30 characters is cut as well
renderItemFrom30(item) ==
    IF Len(item.note) >= TruncateAt
    THEN SubSeq(item.note, 1, TruncateAt) \o <<".", ".", ".">>
    ELSE item.note

\* the text of a row, line 102: substring(0, 30) + "..." past 30 characters
renderItem(item) ==
    IF Len(item.note) > TruncateAt
    THEN SubSeq(item.note, 1, TruncateAt) \o <<".", ".", ".">>
    ELSE item.note

\* the FlatList draws the row at position i, lines 100-106
renderRow(i) ==
    /\ q' = [kind |-> "render", id |-> notes[i].id, shown |-> renderItem(notes[i])]
    /\ UNCHANGED <<db, storeVars, viewVars, calls, ev, hist>>

InitRender ==
    /\ \E t \in RowTexts : InitStore(<<t>>, MaxRenderEvents)
    /\ db = TRUE
    /\ notes = Select(rows, <<>>, limit, 0)
    /\ search = <<>>
    /\ modalVisible = FALSE
    /\ modalDeleteVisible = FALSE
    /\ currentNote = <<>>
    /\ editingNoteId = NULL
    /\ deleteNoteId = NULL
    /\ page = 0
    /\ calls = <<>>
    /\ ev = Event("other", NoCall, 0)
    /\ q = NoQuery

NextRender ==
    \/ \E i \in 1..Len(notes) : renderRow(i)
    \/ \E i \in TapPositions(Len(notes)) : openEditModal(i)
    \/ closePress

SpecRender == InitRender /\ [][NextRender]_vars

----------------------------------------------------------------------------
(* The statements on their own: a store filled by INSERT, UPDATE and       *)
(* DELETE in any order, and the SELECT of loadNotes asked with any term,   *)
(* limit and offset.  q holds the last query and what it returned; the     *)
(* next statement that changes the store clears it.                        *)

StoreTexts == {<<"a">>, <<"A", "b">>, <<"b", "_">>, <<"%">>}
QueryTerms == {<<>>, <<"a">>, <<"b">>, <<"B">>, <<"a", "b">>, <<"_">>, <<"%">>, <<"_", "b">>}
QueryLimits == (0..MaxLimit) \cup {limit}
QueryOffsets == 0..(MaxRows + 1)

BigStore == [i \in 1..BigRows |-> NoteOf(i)]

InitSearch ==
    /\ InitView
    /\ db = TRUE
    /\ calls = <<>>
    /\ ev = Event("other", NoCall, 0)
    /\ q = NoQuery
    /\ tableExists = TRUE
    /\ \E r \in {EmptyRows, BigStore} :
          /\ rows = r
          /\ seq = MaxId(r)
          /\ hist = InitHist(r, 0)

\* INSERT INTO notes (note) VALUES (?)
sInsert(t) ==
    /\ seq < MaxRows
    /\ rows' = InsertRows(rows, seq, t)
    /\ seq' = NextRowId(rows, seq)
    /\ q' = NoQuery
    /\ UNCHANGED <<db, tableExists, viewVars, calls, ev, hist>>

\* UPDATE notes SET note = ? WHERE id = ?
sUpdate(id, t) ==
    /\ seq <= MaxRows
    /\ rows[id] # t
    /\ rows' = UpdateRows(rows, id, t)
    /\ q' = NoQuery
    /\ UNCHANGED <<db, tableExists, seq, viewVars, calls, ev, hist>>

\* DELETE FROM notes WHERE id = ?
sDelete(id) ==
    /\ seq <= MaxRows
    /\ rows' = DeleteRows(rows, id)
    /\ q' = NoQuery
    /\ UNCHANGED <<db, tableExists, seq, viewVars, calls, ev, hist>>

\* one SELECT, asked of the store as it stands
sSearch(term, lim, off) ==
    /\ q = NoQuery
    /\ q' = [kind |-> "search", term |-> term, lim |-> lim, off |-> off,
             res |-> Select(rows, term, lim, off), pages |-> <<>>]
    /\ UNCHANGED <<db, storeVars, viewVars, calls, ev, hist>>

\* the SELECTs of pages 0, 1, ... of loadNotes (offset page * lim), up to a
\* page that lies past the last row
sPages(term, lim) ==
    /\ q = NoQuery
    /\ lim > 0
    /\ q' = [kind |-> "pages", term |-> term, lim |-> lim, off |-> 0,
             res |-> <<>>,
             pages |-> [k \in 1..(Cardinality(DOMAIN rows) \div lim + 2) |->
                          Select(rows, term, lim, (k - 1) * lim)]]
    /\ UNCHANGED <<db, storeVars, viewVars, calls, ev, hist>>

NextSearch ==
    \/ \E t \in StoreTexts : sInsert(t)
    \/ \E id \in DOMAIN rows, t \in StoreTexts : sUpdate(id, t)
    \/ \E id \in DOMAIN rows : sDelete(id)
    \/ \E term \in QueryTerms, lim \in QueryLimits, off \in QueryOffsets :
          sSearch(term, lim, off)
    \/ \E term \in QueryTerms, lim \in QueryLimits : sPages(term, lim)

SpecSearch == InitSearch /\ [][NextSearch]_vars

----------------------------------------------------------------------------
(* Claims about the controller *)

\* no INSERT, UPDATE or DELETE is pending
Quiescent == \A i \in 1..Len(calls) : ~IsMutation(calls[i])

SeqToSet(s) == {s[k] : k \in 1..Len(s)}

Blank(t) == ~Truthy(trim(t))

C2_BlankDraftNeverStored ==
    /\ \A id \in DOMAIN rows : ~Blank(rows[id])
    /\ \A i \in 1..Len(calls) :
          calls[i].op \in {"insert", "update"} => ~Blank(calls[i].text)
    /\ (ev.kind = "save" /\ Blank(ev.draft)) => modalVisible

\* C2 witness: save was just tapped on a whitespace-only draft of an existing
\* note, with the handle open so that only the trim() test stops the UPDATE
C2_Witness ==
    /\ ev.kind = "save"
    /\ Blank(ev.draft) /\ ev.draft # <<>>
    /\ editingNoteId # NULL
    /\ db

\* C3: when the load triggered by a change of the search term completes, the
\* list shown is page 0 of the new term.
C3_SearchChangeShowsNewTerm ==
    (ev.kind = "loaded" /\ ev.why = "search") => notes = ev.expect

\* C4: when the reload triggered by a successful mutation completes, the list
\* shown is page 0 of the current search term over the updated store.
C4_MutationReloadsPageZero ==
    (ev.kind = "loaded" /\ ev.why = "mutation") => notes = ev.expect

\* C5: an end-of-list event fetches page currentPage + 1 of the unchanged
\* term, and when that fetch completes the list shown is the list shown at
\* the event followed by that page's rows.
C5_EndReachedFetchesNextPage ==
    /\ \A i \in 1..Len(calls) :
          calls[i].why = "end" =>
              /\ calls[i].off = calls[i].wantPage * limit
              /\ calls[i].term = calls[i].wantTerm
    /\ (ev.kind = "loaded" /\ ev.why = "end") => notes = ev.expect

\* C6: the list shown is in strictly descending id order (so without
\* duplicates) in every reachable state.
C6_ListStrictlyDescending ==
    \A k \in 1..(Len(notes) - 1) : notes[k].id > notes[k + 1].id

\* C7: page is 0 right after the search term changes and right after an
\* INSERT, UPDATE or DELETE call has succeeded.
C7_PageResetToZero ==
    ev.kind \in {"searchChanged", "added", "updated", "deleted"} => page = 0

\* C7 witness: an INSERT has just succeeded, and end-of-list events moved page
\* on while it was pending
C7_Witness ==
    /\ ev.kind = "added"
    /\ ev.pageBefore > ev.tapPage

\* C10: at most one INSERT, UPDATE or DELETE is pending at any time.
C10_OneMutationPending ==
    Cardinality({i \in 1..Len(calls) : IsMutation(calls[i])}) <= 1

\* initializeDB has not got past its CREATE TABLE: the store is being opened,
\* or the statement is sent and not yet executed
InitializationInProgress ==
    \E i \in 1..Len(calls) :
        \/ calls[i].op = "open"
        \/ calls[i].op = "create" /\ calls[i].st = "queued"

\* C11: no SELECT, INSERT, UPDATE or DELETE is pending while the CREATE TABLE
\* IF NOT EXISTS of initialization has not completed.
C11_NoStatementBeforeCreateTable ==
    InitializationInProgress =>
        \A j \in 1..Len(calls) :
            calls[j].op \notin {"select", "insert", "update", "delete"}

\* C12: a DELETE raises no error and removes the targeted row and no other,
\* so that a second DELETE of the same id leaves the store as the first left
\* it.
C12_DeleteRemovesOnlyTarget ==
    /\ \A i \in 1..Len(calls) : calls[i].op = "delete" => calls[i].st # "err"
    /\ ev.kind = "deleteExecuted" =>
          /\ ev.st = "ok"
          /\ DOMAIN rows = DOMAIN ev.before.rows \ {ev.id}
          /\ \A id \in DOMAIN rows : rows[id] = ev.before.rows[id]
          /\ ev.id \notin DOMAIN ev.before.rows => rows = ev.before.rows

\* C12 witness: the DELETE of a second confirm tap has been executed, its row
\* already removed by the first, and another note is still in the store
C12_Witness ==
    /\ ev.kind = "deleteExecuted"
    /\ ev.id \in hist.deleted
    /\ ev.id \notin DOMAIN ev.before.rows
    /\ rows # EmptyRows

\* C13: a save in the dialog opened on the row with id i sends an UPDATE of
\* row i and no INSERT; the UPDATE changes the text of row i only, keeps the
\* ids and the number of rows, and changes nothing when row i is gone.
C13_SaveOnExistingRowUpdatesIt ==
    /\ (ev.kind = "save" /\ hist.target # NULL) =>
          /\ ev.op \in {"none", "update"}
          /\ ev.op = "update" =>
                /\ ev.id = hist.target
                /\ Len(calls) = Len(ev.before.calls) + 1
                /\ calls[Len(calls)].op = "update"
                /\ calls[Len(calls)].id = hist.target
    /\ ev.kind = "updateExecuted" =>
          /\ ev.st = "ok"
          /\ seq = ev.before.seq
          /\ DOMAIN rows = DOMAIN ev.before.rows
          /\ \A id \in DOMAIN rows \ {ev.id} : rows[id] = ev.before.rows[id]
          /\ ev.id \in DOMAIN rows => rows[ev.id] = ev.draft
          /\ ev.id \notin DOMAIN ev.before.rows => rows = ev.before.rows

\* C13 witness: the UPDATE sent from the dialog opened on a row has changed
\* that row's text, in a store that holds another row
C13_Witness ==
    /\ ev.kind = "updateExecuted"
    /\ ev.id = hist.target
    /\ ev.id \in DOMAIN rows
    /\ rows[ev.id] # ev.before.rows[ev.id]
    /\ Cardinality(DOMAIN rows) > 1

\* C14: declining the delete confirmation closes it and leaves the store, the
\* list, the search term, the page and the pending calls as they were; a
\* DELETE is sent only for the row targeted since the last decline.
C14_DeclineHasNoEffect ==
    /\ ev.kind = "decline" =>
          /\ ~modalDeleteVisible
          /\ rows = ev.before.rows
          /\ notes = ev.before.notes
          /\ search = ev.before.search
          /\ page = ev.before.page
          /\ calls = ev.before.calls
    /\ (ev.kind = "confirm" /\ ev.op = "delete") =>
          /\ hist.armed # NULL
          /\ ev.id = hist.armed

\* C14 witness: the confirmation of a note that is in the store has been
\* declined
C14_Witness ==
    /\ ev.kind = "decline"
    /\ ev.before.modalDeleteVisible
    /\ ev.before.deleteNoteId \in DOMAIN rows

\* C15: the close button closes the add/edit dialog and sends nothing; the
\* add button then opens it on no row with an empty draft, a row tap on the
\* tapped row with that row's text; a save sends the draft of the open dialog.
C15_ClosedDraftDiscarded ==
    /\ ev.kind = "close" =>
          /\ ~modalVisible
          /\ rows = ev.before.rows
          /\ calls = ev.before.calls
    /\ ev.kind = "openAdd" =>
          /\ modalVisible
          /\ currentNote = <<>>
          /\ editingNoteId = NULL
    /\ ev.kind = "openEdit" =>
          /\ modalVisible
          /\ [id |-> editingNoteId, note |-> currentNote] \in SeqToSet(notes)
          /\ editingNoteId = ev.id
          /\ currentNote = ev.draft
    /\ (ev.kind = "save" /\ ev.op # "none") =>
          /\ ev.before.modalVisible
          /\ ev.draft = ev.before.currentNote

\* C15 witness: the add button has opened the dialog after it was closed on
\* a row with a draft in it
C15_Witness ==
    /\ ev.kind = "openAdd"
    /\ ~ev.before.modalVisible
    /\ ev.before.currentNote # <<>>
    /\ ev.before.editingNoteId # NULL

\* C16: CREATE TABLE IF NOT EXISTS on a store that holds the table leaves
\* its rows and its id counter as they were, and the load of initialization
\* shows the notes the store held, as long as no statement has changed them.
C16_InitializationKeepsRows ==
    /\ ev.kind = "createExecuted" =>
          /\ tableExists
          /\ rows = ev.before.rows
          /\ seq = ev.before.seq
    /\ (ev.kind = "loaded" /\ ev.why = "init" /\ ~hist.touched) =>
          /\ rows = hist.text
          /\ SeqToSet(notes) = {[id |-> id, note |-> rows[id]] : id \in DOMAIN rows}

\* C16 witness: the load of initialization has shown the notes of an earlier
\* run
C16_Witness ==
    /\ ev.kind = "loaded"
    /\ ev.why = "init"
    /\ ~hist.touched
    /\ Len(notes) = SmallRows

\* C17: a row shows its note's text when that has at most 30 characters, and
\* its first 30 characters followed by "..." when it has more; the text in
\* the store and the draft opened from the row are the whole text.
C17_RowTextCutForDisplayOnly ==
    /\ q.kind = "render" =>
          LET note == rows[q.id]
          IN  /\ Len(note) <= 30 => q.shown = note
              /\ Len(note) > 30 =>
                    /\ Len(q.shown) = 33
                    /\ \A k \in 1..30 : q.shown[k] = note[k]
                    /\ \A k \in 31..33 : q.shown[k] = "."
    /\ rows = hist.text
    /\ \A k \in 1..Len(notes) : notes[k].note = rows[notes[k].id]
    /\ ev.kind = "openEdit" => currentNote = rows[editingNoteId]

\* C17 witness: a row of more than 30 characters has been drawn cut, and the
\* dialog opened from it holds the whole text
C17_Witness ==
    /\ q.kind = "render"
    /\ Len(rows[q.id]) > TruncateAt
    /\ q.shown # rows[q.id]
    /\ ev.kind = "openEdit"
    /\ currentNote = rows[q.id]

\* C18: once no load is pending, the list is the one set by the load issued
\* last, also when a load issued before it has settled after it.
C18_LastIssuedLoadWins ==
    (/\ ev.kind = "loaded"
     /\ ev.later # <<>>
     /\ \A i \in 1..Len(calls) : calls[i].op # "select")
    => notes = ev.later[1]

\* C19: when the promise of an INSERT, UPDATE or DELETE rejects, the view
\* state and the store stay as they were, and of the pending calls only the
\* rejected one goes: no reload, no second attempt.
C19_FailedMutationChangesNothing ==
    (ev.kind = "rejected" /\ ev.op \in {"insert", "update", "delete"}) =>
        /\ modalVisible = ev.before.modalVisible
        /\ modalDeleteVisible = ev.before.modalDeleteVisible
        /\ currentNote = ev.before.currentNote
        /\ editingNoteId = ev.before.editingNoteId
        /\ deleteNoteId = ev.before.deleteNoteId
        /\ page = ev.before.page
        /\ notes = ev.before.notes
        /\ search = ev.before.search
        /\ rows = ev.before.rows
        /\ \E i \in 1..Len(ev.before.calls) :
              /\ ev.before.calls[i].st = "err"
              /\ ev.before.calls[i].op = ev.op
              /\ calls = Remove(ev.before.calls, i)

\* C19 witness: an UPDATE has failed, and the dialog it was sent from is
\* open on the same row with the same draft
C19_Witness ==
    /\ ev.kind = "rejected"
    /\ ev.op = "update"
    /\ modalVisible
    /\ editingNoteId = ev.id
    /\ currentNote = ev.draft

----------------------------------------------------------------------------
(* Claims about the statements *)

\* term occurs in text as a substring, character for character
Contains(term, text) ==
    \E i \in 0..(Len(text) - Len(term)) :
        SubSeq(text, i + 1, i + Len(term)) = term

\* text can be cut into consecutive pieces, one per character of the pattern:
\* any piece for %, one character for _, and for any other character that
\* character in either ASCII case.  cut[i] is where the i-th piece ends.
MatchesPattern(p, text) ==
    \E cut \in [0..Len(p) -> 0..Len(text)] :
        /\ cut[0] = 0
        /\ cut[Len(p)] = Len(text)
        /\ \A i \in 1..Len(p) :
              IF p[i] = "%" THEN cut[i] >= cut[i - 1]
              ELSE /\ cut[i] = cut[i - 1] + 1
                   /\ (p[i] = "_" \/ Fold(p[i]) = Fold(text[cut[i]]))

\* the rows a search must return: of the ids whose text passes Match, those
\* preceded by at least off and by fewer than off + lim larger passing ids
Expected(Match(_, _), term, lim, off) ==
    LET M == {id \in DOMAIN rows : Match(term, rows[id])}
        before(id) == Cardinality({j \in M : j > id})
    IN  {id \in M : before(id) >= off /\ before(id) < off + lim}

SearchReturns(Match(_, _)) ==
    q.kind = "search" =>
        /\ {q.res[k].id : k \in 1..Len(q.res)} = Expected(Match, q.term, q.lim, q.off)
        /\ \A k \in 1..Len(q.res) : q.res[k].note = rows[q.res[k].id]
        /\ \A k \in 1..(Len(q.res) - 1) : q.res[k].id > q.res[k + 1].id

Concat(ss) ==
    LET RECURSIVE cat(_)
        cat(k) == IF k = 0 THEN <<>> ELSE cat(k - 1) \o ss[k]
    IN  cat(Len(ss))

\* C9: over one store and one term, the pages of limit L at offsets 0, L,
\* 2L, ... partition the result: each holds L rows until the rows run out,
\* then the remainder, then nothing; no id is in two pages; joined in order
\* they are the search with limit N at offset 0, N the number of matches.
C9_PagesPartitionResult ==
    q.kind = "pages" =>
        LET N == Cardinality({id \in DOMAIN rows :
                                MatchesPattern(LikePattern(q.term), rows[id])})
            np == Len(q.pages)
        IN  /\ Concat(q.pages) = Select(rows, q.term, N, 0)
            /\ Len(Concat(q.pages)) = N
            /\ \A k \in 1..np :
                  Len(q.pages[k]) = Min(q.lim, Max(0, N - (k - 1) * q.lim))
            /\ \A k1, k2 \in 1..np :
                  k1 # k2 =>
                    {q.pages[k1][j].id : j \in 1..Len(q.pages[k1])}
                      \cap {q.pages[k2][j].id : j \in 1..Len(q.pages[k2])} = {}
            /\ q.pages[np] = <<>>

\* C9 witness: 120 notes read with the empty term in pages of 50 give 50, 50
\* and 20 rows and then none
C9_Witness ==
    /\ q.kind = "pages"
    /\ q.term = <<>> /\ q.lim = limit
    /\ Cardinality(DOMAIN rows) = 120
    /\ Len(q.pages) = 4
    /\ Len(q.pages[1]) = 50 /\ Len(q.pages[2]) = 50 /\ Len(q.pages[3]) = 20
    /\ q.pages[4] = <<>>

====
